---- MODULE Spec2Model ----
(***************************************************************************)
(* Forest-diversity simulations of bit-player/trees:                       *)
(*   "immigration"  neutral drift with immigration                         *)
(*                  (src/immigration/immigration.js, lines 1-434)          *)
(*   "competition"  two species competing for two resources                *)
(*                  (src/immigration/immigration.js, lines 437-873)        *)
(*   "socialdx"     neighbourhood exclusion on a torus                     *)
(*                  (src/socialdx/socialdx.js)                             *)
(* Each program is a single-threaded page: a timer callback (runBatch)     *)
(* and the click / slider handlers run one at a time.  The variable i is   *)
(* the position of the running runBatch inside its for loop; the user's    *)
(* handlers run only between callbacks (i = 0).                            *)
(***************************************************************************)
EXTENDS Integers, Sequences, FiniteSets, TLC

(***************************************************************************)
(* Sizes.  The programs run 25 x 25 grids, batches of 40 replacements, a   *)
(* snapshot every 1000 steps and a ceiling of 500000 steps; the model      *)
(* keeps the code and scales the numbers, keeping what the source has:     *)
(* batchSize divides timelineInterval, which divides maxSteps.             *)
(***************************************************************************)
\* trees along one edge in immigration / competition: createForest(25)
treesPerRow == 2
\* trees along one edge in socialdx: new Forest(25, ...); 4 is the least
\* side on which a 3 x 3 neighbourhood is not the whole torus
gridSize == 4
\* tree replacements per timer callback (40 in the source)
batchSize == 2
\* rejected candidates counted per competition replaceTree
MaxRejects == 1
\* half of the resource total: the 50 of the 50:50 split of the source
halfSplit == 1

\* the step ceiling (500000 in the source), a multiple of batchSize
maxSteps == 2 * batchSize
\* the model explores two runs of maxSteps after a reset
StepCap == 2 * maxSteps
\* the slider of competition runs from 0 to 100 in the source
sliderMax == 2 * halfSplit

\* 0.25, kept as the fraction 1 / poachingCoefInv
poachingCoefInv == 4

null == "null"
NaN == "NaN"

Variants == {"immigration", "competition", "socialdx"}

\* the species of each program (the first names of each colour map)
treeNamesOf(v) ==
    CASE v = "immigration" -> <<"aspen", "elm">>
      [] v = "competition" -> <<"olive", "orange">>
      [] v = "socialdx"    -> <<"aspen", "elm", "maple">>

Range(seq) == {seq[k] : k \in DOMAIN seq}

SpeciesOf(v) == Range(treeNamesOf(v))

square(n) == n * n

\* number of trees of each program
NOf(v) == IF v = "socialdx" THEN square(gridSize) ELSE square(treesPerRow)

CellsOf(v) == 0 .. (NOf(v) - 1)

\* the slider's lookup table of immigration intervals, scaled
immigrationIntervalList == <<1, 3, 4>>
\* position the slider is put at by init (9 in the source, where list[9] = 100)
immSliderDefault == 1
\* let immigrationInterval = 100
immigrationIntervalDefault == immigrationIntervalList[immSliderDefault + 1]
ImmSliderPositions == 0 .. (Len(immigrationIntervalList) - 1)

\* every timelineInterval steps a census snapshot is appended (1000 in the
\* source, a multiple of batchSize that divides maxSteps)
timelineInterval == maxSteps
timelineOnOf(v) == v = "competition"

-----------------------------------------------------------------------------
(* utilities of socialdx.js *)

\* mutant: the sum is clamped at the edges instead of wrapped around
modAddClamps(a, b, m) ==
    LET s == a + b
    IN  IF s < 0 THEN 0
        ELSE IF s >= m THEN m - 1
        ELSE s

\* mutant: a negative sum is returned as it is
modAddNoWrapUp(a, b, m) ==
    LET s == a + b
    IN  IF s >= m THEN s - m ELSE s

modAdd(a, b, m) ==
    LET s == a + b
    IN  IF s < 0 THEN s + m
        ELSE IF s >= m THEN s - m
        ELSE s

colRowToIndex(c, r, s) == c + (r * s)

\* col and row of the tree at a linear index (the constructor's col/row walk)
colOf(idx, s) == idx % s
rowOf(idx, s) == idx \div s

\* Tree.prototype.listNeighbors: h outer loop, v inner loop, push in order
listNeighbors(idx, s) ==
    [k \in 1 .. 9 |->
        LET h == ((k - 1) \div 3) - 1
            v == ((k - 1) % 3) - 1
        IN  colRowToIndex(modAdd(colOf(idx, s), h, s),
                          modAdd(rowOf(idx, s), v, s), s)]

\* mutant: the ego tree (position 4 of the list, counted from 0) is left out
listNeighborSpeciesRing(forest, nbrs) ==
    {forest[nbrs[k]] : k \in (DOMAIN nbrs) \ {5}} \ {null}

\* Tree.prototype.listNeighborSpecies: keys of the truthy species of the nine
listNeighborSpecies(forest, nbrs) ==
    {forest[nbrs[k]] : k \in DOMAIN nbrs} \ {null}

-----------------------------------------------------------------------------
VARIABLES
    variant,                  \* which of the three programs this page runs
    state,                    \* "idle", "running", "paused", "done"
    stepCount,                \* number of tree-replacement events
    activeTimers,             \* number of setInterval timers not yet cleared
    timerLive,                \* the handle in 'timer' names an active timer
    disabled,                 \* startStopButton has the disabled attribute
    i,                        \* loop index of the runBatch in progress
    theForest,                \* species label of every tree
    theCensus,                \* species -> count
    neighborTrees,            \* socialdx: the nine neighbours of every tree
    immigrationInterval,      \* immigration: steps between immigrants
    immSlider,                \* immigration: immSlider.value
    iron,                     \* competition: resource of olive
    calcium,                  \* competition: resource of orange
    coexistSlider,            \* competition: coexistSlider.value
    timeline,                 \* competition: species -> sequence of counts
    timelineNumberOfSpecies,  \* competition: species present per snapshot
    spinning,                 \* competition: replaceTree's do-while never ends
    arrivalSource,            \* where the last replaceTree took the arrival
    rejected                  \* candidates the last replaceTree rejected

vars == <<variant, state, stepCount, activeTimers, timerLive, disabled, i,
          theForest, theCensus, neighborTrees, immigrationInterval, immSlider,
          iron, calcium, coexistSlider, timeline, timelineNumberOfSpecies,
          spinning, arrivalSource, rejected>>

-----------------------------------------------------------------------------
(* construction: createForest (immigration, competition) and Forest (socialdx) *)

\* the census is counted while the trees are planted, one tree per iteration
RECURSIVE plantCount(_, _, _, _)
plantCount(forest, counts, idx, N) ==
    IF idx >= N THEN counts
    ELSE plantCount(forest, [counts EXCEPT ![forest[idx]] = @ + 1], idx + 1, N)

speciesCounts(v, forest) ==
    plantCount(forest, [sp \in SpeciesOf(v) |-> 0], 0, NOf(v))

\* a planting of socialdx: species ((a*col + b*row) mod S) at (col, row)
stripes(a, b) ==
    [c \in CellsOf("socialdx") |->
        treeNamesOf("socialdx")[
            (((a * colOf(c, gridSize)) + (b * rowOf(c, gridSize)))
                % Len(treeNamesOf("socialdx"))) + 1]]

\* a planting of socialdx: the first species everywhere but in the last
\* column, where the second and the third alternate
fringe ==
    [c \in CellsOf("socialdx") |->
        treeNamesOf("socialdx")[
            IF colOf(c, gridSize) < gridSize - 1 THEN 1
            ELSE 2 + (rowOf(c, gridSize) % 2)]]

\* a planting of socialdx: the first species everywhere but in the last
\* column, which holds the second species and, in the last row, the only
\* tree of the third
lone ==
    [c \in CellsOf("socialdx") |->
        treeNamesOf("socialdx")[
            IF colOf(c, gridSize) < gridSize - 1 THEN 1
            ELSE IF rowOf(c, gridSize) < gridSize - 1 THEN 2
            ELSE 3]]

\* the plantings randomElement(treeNames) can produce that the model starts
\* from: every planting of the small grids, a family of plantings of socialdx
Plantings(v) ==
    IF v = "socialdx"
    THEN {stripes(a, b) : a \in 0 .. 1, b \in 0 .. 2} \cup {fringe, lone}
    ELSE [CellsOf(v) -> SpeciesOf(v)]

\* the trees randomElement(this.trees) draws as departing in socialdx: the
\* trees of the diagonal
DepartingTrees(v) ==
    IF v = "socialdx"
    THEN {c \in CellsOf(v) : colOf(c, gridSize) = rowOf(c, gridSize)}
    ELSE CellsOf(v)

\* initTimeline: species -> empty array
initTimeline(v) == [sp \in SpeciesOf(v) |-> <<>>]

\* what init() leaves behind, given the planting the random draws produced
init(v, forest) ==
    [theForest     |-> forest,
     theCensus     |-> speciesCounts(v, forest),
     neighborTrees |-> IF v = "socialdx"
                       THEN [c \in CellsOf(v) |-> listNeighbors(c, gridSize)]
                       ELSE <<>>,
     state         |-> "idle",
     immSlider     |-> IF v = "immigration" THEN immSliderDefault ELSE 0,
     iron          |-> IF v = "competition" THEN halfSplit ELSE 0,
     calcium       |-> IF v = "competition" THEN halfSplit ELSE 0,
     coexistSlider |-> IF v = "competition" THEN halfSplit ELSE 0]

Init ==
    \E v \in Variants :
        \E forest \in Plantings(v) :
            \E r \in {init(v, forest)} :
                /\ variant = v
                /\ state = r.state
                /\ stepCount = 0
                /\ activeTimers = 0
                /\ timerLive = FALSE
                /\ disabled = FALSE
                /\ i = 0
                /\ theForest = r.theForest
                /\ theCensus = r.theCensus
                /\ neighborTrees = r.neighborTrees
                /\ immigrationInterval =
                        (IF v = "immigration" THEN immigrationIntervalDefault ELSE 0)
                /\ immSlider = r.immSlider
                /\ iron = r.iron
                /\ calcium = r.calcium
                /\ coexistSlider = r.coexistSlider
                /\ timeline = (IF v = "socialdx" THEN <<>> ELSE initTimeline(v))
                /\ timelineNumberOfSpecies = <<>>
                /\ spinning = FALSE
                /\ arrivalSource = "none"
                /\ rejected = 0

-----------------------------------------------------------------------------
(* the timer and the start/stop state machine *)

setInterval(ctl) ==
    [ctl EXCEPT !.activeTimers = @ + 1, !.timerLive = TRUE]

\* mutant: the timer is left running
clearIntervalLeaves(ctl) == ctl

clearInterval(ctl) ==
    IF ctl.timerLive
    THEN [ctl EXCEPT !.activeTimers = @ - 1, !.timerLive = FALSE]
    ELSE ctl

\* mutant: case 'idle' has no break and falls through into case 'running'
doStartStopFallsThrough(ctl) ==
    CASE ctl.state = "idle"    ->
            clearInterval([setInterval(ctl) EXCEPT !.state = "paused"])
      [] ctl.state = "running" -> clearInterval([ctl EXCEPT !.state = "paused"])
      [] ctl.state = "paused"  -> setInterval([ctl EXCEPT !.state = "running"])
      [] OTHER                 -> ctl

\* doStartStop of immigration
doStartStopImm(ctl) ==
    CASE ctl.state = "idle"    -> setInterval([ctl EXCEPT !.state = "running"])
      [] ctl.state = "running" -> clearInterval([ctl EXCEPT !.state = "paused"])
      [] ctl.state = "paused"  -> setInterval([ctl EXCEPT !.state = "running"])
      [] OTHER                 -> ctl

\* mutant: the switch of the other programs, without the case 'done'
doStartStopNoDone(ctl) ==
    CASE ctl.state = "idle"    -> setInterval([ctl EXCEPT !.state = "running"])
      [] ctl.state = "running" -> clearInterval([ctl EXCEPT !.state = "paused"])
      [] ctl.state = "paused"  -> setInterval([ctl EXCEPT !.state = "running"])
      [] OTHER                 -> ctl

\* doStartStop of competition: the extra case 'done'
doStartStopComp(ctl) ==
    CASE ctl.state = "idle"    -> setInterval([ctl EXCEPT !.state = "running"])
      [] ctl.state = "running" -> clearInterval([ctl EXCEPT !.state = "paused"])
      [] ctl.state = "paused"  -> setInterval([ctl EXCEPT !.state = "running"])
      [] ctl.state = "done"    -> [clearInterval(ctl) EXCEPT !.disabled = TRUE]
      [] OTHER                 -> ctl

\* doStartStop of socialdx
doStartStopSdx(ctl) ==
    CASE ctl.state = "idle"    -> setInterval([ctl EXCEPT !.state = "running"])
      [] ctl.state = "running" -> clearInterval([ctl EXCEPT !.state = "paused"])
      [] ctl.state = "paused"  -> setInterval([ctl EXCEPT !.state = "running"])
      [] OTHER                 -> ctl

doStartStop(v, ctl) ==
    CASE v = "immigration" -> doStartStopImm(ctl)
      [] v = "competition" -> doStartStopComp(ctl)
      [] v = "socialdx"    -> doStartStopSdx(ctl)

\* mutant: the test comes true one batch after the ceiling
finishedOneBatchLate(step) == (step % maxSteps) = batchSize

\* finished() of immigration and of socialdx
finished(step) == (step % maxSteps) = 0

\* finished() of competition
finishedComp(step, census) ==
    \/ (step % maxSteps) = 0
    \/ census["olive"] = 0
    \/ census["orange"] = 0

\* runBatch of competition: the state it assigns before calling doStartStop
stateWhenFinished(step) ==
    IF (step % maxSteps) = 0 THEN "running" ELSE "done"

\* the end of runBatch, after the loop: the stop condition and its handler
batchEnd(v, ctl, step, census) ==
    IF v = "competition"
    THEN IF finishedComp(step, census)
         THEN doStartStopComp([ctl EXCEPT !.state = stateWhenFinished(step)])
         ELSE ctl
    ELSE IF finished(step) THEN doStartStop(v, ctl) ELSE ctl

Ctl == [state |-> state, activeTimers |-> activeTimers,
        timerLive |-> timerLive, disabled |-> disabled]

SetCtl(ctl) ==
    /\ state' = ctl.state
    /\ activeTimers' = ctl.activeTimers
    /\ timerLive' = ctl.timerLive
    /\ disabled' = ctl.disabled

-----------------------------------------------------------------------------
(* replaceTree *)

\* mutant: the departing tree's count is not decremented
censusDecForgotten(census, sp) == census

\* theCensus[sp] -= 1 ; the key of a vacant tree is "null", whose entry is
\* undefined before and NaN after
censusDec(census, sp) ==
    IF sp = null
    THEN [k \in (DOMAIN census) \cup {null} |-> IF k = null THEN NaN ELSE census[k]]
    ELSE [census EXCEPT ![sp] = @ - 1]

\* mutant: the arriving species is counted twice
censusIncTwice(census, sp) == [census EXCEPT ![sp] = @ + 2]

\* theCensus[sp] += 1
censusInc(census, sp) == [census EXCEPT ![sp] = @ + 1]

\* mutant: the step counter is advanced twice
stepIncTwice(step) == step + 2

\* stepCount += 1
stepInc(step) == step + 1

\* mutant: the test is made on the step count after its increment
isImmigrationStepLate(step, interval) == ((step + 1) % interval) = 0

\* immigration: stepCount % immigrationInterval === 0
isImmigrationStep(step, interval) == (step % interval) = 0

\* mutant: plain drift, the arrival is always the species of a tree
arrivingSpeciesDrift(forest, step, interval) ==
    {forest[c] : c \in CellsOf("immigration")}

\* immigration: the values randomElement can give arrivingSpecies
arrivingSpeciesImm(forest, step, interval) ==
    IF isImmigrationStep(step, interval)
    THEN SpeciesOf("immigration")
    ELSE {forest[c] : c \in CellsOf("immigration")}

\* mutant: the departing tree loses its label instead of taking the arrival's
replaceTreeDriftVacates(forest, census, step, departingTree, arrivingSpecies) ==
    [theCensus |-> censusInc(censusDec(census, forest[departingTree]), arrivingSpecies),
     theForest |-> [forest EXCEPT ![departingTree] = null],
     stepCount |-> stepInc(step)]

\* immigration and competition: the two census updates and the relabelling
replaceTreeDrift(forest, census, step, departingTree, arrivingSpecies) ==
    [theCensus |-> censusInc(censusDec(census, forest[departingTree]), arrivingSpecies),
     theForest |-> [forest EXCEPT ![departingTree] = arrivingSpecies],
     stepCount |-> stepInc(step)]

\* mutant: the denominator counts the species' own trees only
factorDenOwnOnly(own, other) == own * poachingCoefInv

\* competition: a pressure factor resource / (own + poachingCoef * other),
\* as numerator and denominator of the same fraction
factorNum(resource) == resource * poachingCoefInv
factorDen(own, other) == (own * poachingCoefInv) + other

\* flipBiasedCoin(num / den) can return true: Math.random() < bias for some
\* draw in [0, 1), i.e. bias > 0 (x / 0 is Infinity for x > 0, 0 / 0 is NaN)
flipCanAccept(num, den) ==
    \/ den >= 0 /\ num > 0
    \/ den < 0 /\ num < 0

\* flipBiasedCoin(num / den) can return false: not bias >= 1
flipCanReject(num, den) ==
    ~ \/ den > 0 /\ num >= den
      \/ den = 0 /\ num > 0
      \/ den < 0 /\ num <= den

\* mutant: the arrival is of the species the drawn tree does not have
speciesAtOther(forest, tree) ==
    IF forest[tree] = "olive" THEN "orange" ELSE "olive"

\* competition: arrivingTree.species
speciesAt(forest, tree) == forest[tree]

\* competition: bias of a candidate of species sp
biasNum(sp, fe, ca) == IF sp = "olive" THEN factorNum(fe) ELSE factorNum(ca)
biasDen(sp, census) ==
    IF sp = "olive"
    THEN factorDen(census["olive"], census["orange"])
    ELSE factorDen(census["orange"], census["olive"])

\* mutant: only olive trees are ever accepted
acceptableTreesOliveOnly(forest, census, fe, ca) ==
    {c \in CellsOf("competition") : forest[c] = "olive"}

\* competition: the trees the do-while loop can leave with / can pass over
acceptableTrees(forest, census, fe, ca) ==
    {c \in CellsOf("competition") :
        flipCanAccept(biasNum(forest[c], fe, ca), biasDen(forest[c], census))}
rejectableTrees(forest, census, fe, ca) ==
    {c \in CellsOf("competition") :
        flipCanReject(biasNum(forest[c], fe, ca), biasDen(forest[c], census))}

\* mutant: the snapshot is taken on the step after a multiple of the interval
isSampleStepLate(step) == (step % timelineInterval) = 1

\* replaceTree of competition: stepCount % timelineInterval === 0
isSampleStep(step) == (step % timelineInterval) = 0

\* timelineSample of competition
speciesPresentCount(census) ==
    Cardinality({sp \in SpeciesOf("competition") : census[sp] > 0})
timelineSample(tl, census) ==
    [sp \in DOMAIN tl |-> Append(tl[sp], census[sp])]

\* mutant: the scan always starts at tree 0, whatever idx was drawn
RECURSIVE scanFromZero(_, _, _, _, _)
scanFromZero(forest, neighborSpecies, idx, k, N) ==
    IF k >= N THEN null
    ELSE LET candidate == forest[modAdd(0, k, N)]
         IN  IF candidate # null /\ candidate \notin neighborSpecies
             THEN candidate
             ELSE scanFromZero(forest, neighborSpecies, idx, k + 1, N)

\* mutant: the species is taken from the species set, not from a living tree
scanFromReserve(forest, neighborSpecies, idx, k, N) ==
    LET absent == SpeciesOf("socialdx") \ neighborSpecies
    IN  IF absent = {} THEN null ELSE CHOOSE sp \in absent : TRUE

\* mutant: the scan takes the first living tree, whatever its species
RECURSIVE scanAnyLiving(_, _, _, _, _)
scanAnyLiving(forest, neighborSpecies, idx, k, N) ==
    IF k >= N THEN null
    ELSE LET candidate == forest[modAdd(idx, k, N)]
         IN  IF candidate # null
             THEN candidate
             ELSE scanAnyLiving(forest, neighborSpecies, idx, k + 1, N)

\* socialdx: the circular scan from idx; the first eligible species or null
RECURSIVE scan(_, _, _, _, _)
scan(forest, neighborSpecies, idx, k, N) ==
    IF k >= N THEN null
    ELSE LET candidate == forest[modAdd(idx, k, N)]
         IN  IF candidate # null /\ candidate \notin neighborSpecies
             THEN candidate
             ELSE scan(forest, neighborSpecies, idx, k + 1, N)

\* mutant: the census is touched only when a replacement was found
replaceTreeSdxKeepsCount(forest, census, nbrs, step, departingTree, idx) ==
    LET neighborSpecies == listNeighborSpecies(forest, nbrs[departingTree])
        replacementSpecies ==
            scan(forest, neighborSpecies, idx, 0, NOf("socialdx"))
    IN  [theCensus |-> IF replacementSpecies # null
                       THEN censusInc(censusDec(census, forest[departingTree]),
                                      replacementSpecies)
                       ELSE census,
         theForest |-> [forest EXCEPT ![departingTree] = replacementSpecies],
         stepCount |-> stepInc(step),
         source    |-> IF replacementSpecies # null THEN "scan" ELSE "vacant"]

\* mutant: the departing tree keeps its species when no replacement is found
replaceTreeSdxKeepsTree(forest, census, nbrs, step, departingTree, idx) ==
    LET neighborSpecies == listNeighborSpecies(forest, nbrs[departingTree])
        replacementSpecies ==
            scan(forest, neighborSpecies, idx, 0, NOf("socialdx"))
    IN  [theCensus |-> IF replacementSpecies # null
                       THEN censusInc(censusDec(census, forest[departingTree]),
                                      replacementSpecies)
                       ELSE census,
         theForest |-> IF replacementSpecies # null
                       THEN [forest EXCEPT ![departingTree] = replacementSpecies]
                       ELSE forest,
         stepCount |-> stepInc(step),
         source    |-> IF replacementSpecies # null THEN "scan" ELSE "vacant"]

\* Forest.prototype.replaceTree
replaceTreeSdx(forest, census, nbrs, step, departingTree, idx) ==
    LET neighborSpecies == listNeighborSpecies(forest, nbrs[departingTree])
        replacementSpecies ==
            scan(forest, neighborSpecies, idx, 0, NOf("socialdx"))
        departed == censusDec(census, forest[departingTree])
    IN  [theCensus |-> IF replacementSpecies # null
                       THEN censusInc(departed, replacementSpecies)
                       ELSE departed,
         theForest |-> [forest EXCEPT ![departingTree] = replacementSpecies],
         stepCount |-> stepInc(step),
         source    |-> IF replacementSpecies # null THEN "scan" ELSE "vacant"]

\* Forest.prototype.countConflicts: for every tree the entries of its ring
\* (the neighbour list without position 4) whose species is === the tree's,
\* vacant === vacant included; the total halved
RECURSIVE countConflictsFrom(_, _, _)
countConflictsFrom(forest, nbrs, t) ==
    IF t >= NOf("socialdx") THEN 0
    ELSE Cardinality({k \in (DOMAIN nbrs[t]) \ {5} :
                            forest[nbrs[t][k]] = forest[t]})
         + countConflictsFrom(forest, nbrs, t + 1)

countConflicts(forest, nbrs) == countConflictsFrom(forest, nbrs, 0) \div 2

-----------------------------------------------------------------------------
(* the timer callback: one iteration of runBatch's loop; the last iteration *)
(* carries the rest of runBatch (the stop condition, doStartStop)           *)

CallbackRuns ==
    /\ activeTimers > 0
    /\ ~spinning
    /\ (i = 0 => stepCount + batchSize <= StepCap)

LoopEnd(step, census) ==
    IF i + 1 < batchSize
    THEN /\ i' = i + 1
         /\ UNCHANGED <<state, activeTimers, timerLive, disabled>>
    ELSE /\ i' = 0
         /\ SetCtl(batchEnd(variant, Ctl, step, census))

RunBatchImm ==
    /\ variant = "immigration"
    /\ CallbackRuns
    /\ \E departingTree \in DepartingTrees(variant) :
        \E arrivingSpecies \in
                arrivingSpeciesImm(theForest, stepCount, immigrationInterval) :
            \E r \in {replaceTreeDrift(theForest, theCensus, stepCount,
                                         departingTree, arrivingSpecies)} :
                /\ theForest' = r.theForest
                /\ theCensus' = r.theCensus
                /\ stepCount' = r.stepCount
                /\ LoopEnd(r.stepCount, r.theCensus)
    /\ arrivalSource' = IF isImmigrationStep(stepCount, immigrationInterval)
                        THEN "reserve" ELSE "forest"
    /\ UNCHANGED <<variant, neighborTrees, immigrationInterval, immSlider, iron,
                   calcium, coexistSlider, timeline, timelineNumberOfSpecies,
                   spinning, rejected>>

RunBatchComp ==
    /\ variant = "competition"
    /\ CallbackRuns
    /\ acceptableTrees(theForest, theCensus, iron, calcium) # {}
    /\ \E departingTree \in DepartingTrees(variant) :
        \E arrivingTree \in acceptableTrees(theForest, theCensus, iron, calcium) :
            \E r \in {replaceTreeDrift(theForest, theCensus, stepCount,
                                         departingTree,
                                         speciesAt(theForest, arrivingTree))} :
                LET sample ==
                        timelineOnOf(variant) /\ isSampleStep(stepCount)
                IN
                /\ theForest' = r.theForest
                /\ theCensus' = r.theCensus
                /\ stepCount' = r.stepCount
                /\ timeline' = IF sample THEN timelineSample(timeline, r.theCensus)
                               ELSE timeline
                /\ timelineNumberOfSpecies' =
                        IF sample
                        THEN Append(timelineNumberOfSpecies,
                                    speciesPresentCount(r.theCensus))
                        ELSE timelineNumberOfSpecies
                /\ LoopEnd(r.stepCount, r.theCensus)
    /\ \E n \in 0 .. MaxRejects :
        /\ n > 0 => rejectableTrees(theForest, theCensus, iron, calcium) # {}
        /\ rejected' = n
    /\ arrivalSource' = "forest"
    /\ UNCHANGED <<variant, neighborTrees, immigrationInterval, immSlider, iron,
                   calcium, coexistSlider, spinning>>

\* competition: no candidate can ever be accepted; the do-while loop of
\* replaceTree never ends and the page handles nothing any more
RunBatchSpin ==
    /\ variant = "competition"
    /\ CallbackRuns
    /\ acceptableTrees(theForest, theCensus, iron, calcium) = {}
    /\ spinning' = TRUE
    /\ UNCHANGED <<variant, state, stepCount, activeTimers, timerLive, disabled, i,
                   theForest, theCensus, neighborTrees, immigrationInterval,
                   immSlider, iron, calcium, coexistSlider, timeline,
                   timelineNumberOfSpecies, arrivalSource, rejected>>

RunBatchSdx ==
    /\ variant = "socialdx"
    /\ CallbackRuns
    /\ \E departingTree \in DepartingTrees(variant) :
        \E idx \in CellsOf(variant) :
            \E r \in {replaceTreeSdx(theForest, theCensus, neighborTrees,
                                       stepCount, departingTree, idx)} :
                /\ theForest' = r.theForest
                /\ theCensus' = r.theCensus
                /\ stepCount' = r.stepCount
                /\ arrivalSource' = r.source
                /\ LoopEnd(r.stepCount, r.theCensus)
    /\ UNCHANGED <<variant, neighborTrees, immigrationInterval, immSlider, iron,
                   calcium, coexistSlider, timeline, timelineNumberOfSpecies,
                   spinning, rejected>>

-----------------------------------------------------------------------------
(* the user's handlers; each runs between two timer callbacks *)

\* mutant: a handler may also run between two iterations of runBatch's loop
HandlerRunsMidBatch == ~spinning

HandlerRuns == i = 0 /\ ~spinning

\* a click on the start/stop button (unless disabled) or on the canvas
ClickStartStop ==
    /\ HandlerRuns
    /\ \E target \in {"button", "canvas"} :
        /\ target = "button" => ~disabled
        /\ SetCtl(doStartStop(variant, Ctl))
    /\ UNCHANGED <<variant, stepCount, i, theForest, theCensus, neighborTrees,
                   immigrationInterval, immSlider, iron, calcium, coexistSlider,
                   timeline, timelineNumberOfSpecies, spinning, arrivalSource,
                   rejected>>

\* mutant: the running timer is not cleared
doResetCtlKeepsTimer(v, ctl) ==
    [ctl EXCEPT !.state = "idle",
                !.disabled = IF v = "competition" THEN FALSE ELSE @]

\* doReset up to its call of init: the timer, the button
doResetCtl(v, ctl) ==
    LET cleared == IF ctl.state = "running" THEN clearInterval(ctl) ELSE ctl
    IN  [cleared EXCEPT !.state = "idle",
                        !.disabled = IF v = "competition" THEN FALSE ELSE @]

\* a click on the reset button: doReset, then init with a fresh planting
ClickReset ==
    /\ HandlerRuns
    /\ stepCount' = 0
    /\ \E forest \in Plantings(variant) :
        /\ theForest' = forest
        /\ \E r \in {init(variant, forest)} :
            /\ SetCtl([doResetCtl(variant, Ctl) EXCEPT !.state = r.state])
            /\ theCensus' = r.theCensus
            /\ neighborTrees' = r.neighborTrees
            /\ immSlider' = r.immSlider
            /\ iron' = r.iron
            /\ calcium' = r.calcium
            /\ coexistSlider' = r.coexistSlider
    /\ timeline' = IF timelineOnOf(variant) THEN initTimeline(variant) ELSE timeline
    /\ timelineNumberOfSpecies' =
            IF timelineOnOf(variant) THEN <<>> ELSE timelineNumberOfSpecies
    /\ UNCHANGED <<variant, i, immigrationInterval, spinning, arrivalSource,
                   rejected>>

\* mutant: the slider's readout is taken as the interval itself
intervalAtReadout(sliderReadout) == sliderReadout

\* adjustImmigrationRate: immigrationIntervalList[sliderReadout]
intervalAt(sliderReadout) == immigrationIntervalList[sliderReadout + 1]

\* adjustImmigrationRate: the slider is moved to a position of its scale
AdjustImmigrationRate ==
    /\ variant = "immigration"
    /\ HandlerRuns
    /\ \E sliderReadout \in ImmSliderPositions :
        /\ immSlider' = sliderReadout
        /\ immigrationInterval' = intervalAt(sliderReadout)
    /\ UNCHANGED <<variant, state, stepCount, activeTimers, timerLive, disabled, i,
                   theForest, theCensus, neighborTrees, iron, calcium,
                   coexistSlider, timeline, timelineNumberOfSpecies, spinning,
                   arrivalSource, rejected>>

\* mutant: only iron follows the slider
adjustResourcesIronOnly(allocation, total) ==
    [iron |-> allocation, calcium |-> total \div 2]

\* adjustResources: iron = allocation; calcium = (100 - allocation)
adjustResources(allocation, total) ==
    [iron |-> allocation, calcium |-> total - allocation]

\* adjustResources: the slider is moved to an allocation of its scale
AdjustResources ==
    /\ variant = "competition"
    /\ HandlerRuns
    /\ \E allocation \in 0 .. sliderMax :
        /\ coexistSlider' = allocation
        /\ iron' = adjustResources(allocation, sliderMax).iron
        /\ calcium' = adjustResources(allocation, sliderMax).calcium
    /\ UNCHANGED <<variant, state, stepCount, activeTimers, timerLive, disabled, i,
                   theForest, theCensus, neighborTrees, immigrationInterval,
                   immSlider, timeline, timelineNumberOfSpecies, spinning,
                   arrivalSource, rejected>>

Next ==
    \/ RunBatchImm
    \/ RunBatchComp
    \/ RunBatchSpin
    \/ RunBatchSdx
    \/ ClickStartStop
    \/ ClickReset
    \/ AdjustImmigrationRate
    \/ AdjustResources

Spec == Init /\ [][Next]_vars

-----------------------------------------------------------------------------
(* what the properties below speak of *)

\* a recount of the trees labelled sp
Recount(sp) == Cardinality({c \in CellsOf(variant) : theForest[c] = sp})

VacantCells == {c \in CellsOf(variant) : theForest[c] = null}

RECURSIVE SumCounts(_, _, _)
SumCounts(census, names, k) ==
    IF k > Len(names) THEN 0
    ELSE census[names[k]] + SumCounts(census, names, k + 1)

\* this step is one iteration of runBatch's loop, i.e. one replaceTree that
\* returned: the loop index moved (batchSize is at least 2)
ReplaceTreeStep == i' # i

-----------------------------------------------------------------------------
\* C1: in every variant, in every reachable state (after construction, after
\* every replaceTree inside or at the end of a batch, after every reset),
\* the census entry of every species of the species set equals the number
\* of trees currently labelled with that species.
C1_CensusAgreesWithRecount ==
    \A sp \in SpeciesOf(variant) : theCensus[sp] = Recount(sp)

\* C1 witness: socialdx after replacements that vacated a tree and then
\* drew a vacant tree as the departing one (the census has a "null" key)
C1_Witness ==
    /\ variant = "socialdx"
    /\ stepCount > batchSize
    /\ VacantCells # {}
    /\ null \in DOMAIN theCensus

\* C2: in every variant the species counts of the census plus the number of
\* vacant trees add up to N, and in immigration and competition no tree is
\* ever vacant, so there the counts alone add up to N.
C2_CountsPlusVacantIsN ==
    /\ SumCounts(theCensus, treeNamesOf(variant), 1) + Cardinality(VacantCells)
            = NOf(variant)
    /\ variant # "socialdx" => VacantCells = {}

\* C2 witness: socialdx with two vacant trees after replacements
C2_Witness ==
    /\ variant = "socialdx"
    /\ stepCount > 0
    /\ Cardinality(VacantCells) >= 2

\* C3: in socialdx, a replaceTree that places an arriving species changes
\* nothing but one tree, and the species it puts there is held, in the grid
\* as it was at the call, by none of the nine trees of that tree's toroidal
\* neighbourhood: not by its eight neighbours, not by the departed tree.
C3_ArrivalNotInNeighbourhood ==
    [][(variant = "socialdx" /\ ReplaceTreeStep /\ arrivalSource' = "scan") =>
            \E c \in CellsOf("socialdx") :
                /\ theForest'[c] # null
                /\ \A k \in 1 .. 9 :
                        theForest[listNeighbors(c, gridSize)[k]] # theForest'[c]
                /\ \A d \in CellsOf("socialdx") \ {c} :
                        theForest'[d] = theForest[d]]_vars

\* C3 witness: an arrival was placed in a grid that also has a vacant tree
C3_Witness ==
    /\ variant = "socialdx"
    /\ arrivalSource = "scan"
    /\ VacantCells # {}

\* C4: every replaceTree that returns adds exactly 1 to stepCount, whatever
\* the number of rejected candidates (competition) and whether or not the
\* tree is left vacant (socialdx); the position in the batch is stepCount
\* mod batchSize, so a batch adds batchSize; and stepCount never decreases
\* except by a reset, which sets it to 0.
C4_StepCountByOne ==
    /\ [](i = stepCount % batchSize)
    /\ [][/\ ReplaceTreeStep => stepCount' = stepCount + 1
          /\ stepCount' < stepCount => (ClickReset /\ stepCount' = 0)]_vars

\* C4 witness: a competition batch ended after a replaceTree that rejected
C4_Witness ==
    /\ variant = "competition"
    /\ rejected > 0
    /\ stepCount >= batchSize
    /\ i = 0

\* this step is a user's handler: it runs between callbacks and replaces no tree
HandlerStep == i' = i /\ stepCount' = stepCount

Extinct(census) == census["olive"] = 0 \/ census["orange"] = 0

\* C5: in immigration, a replaceTree takes the arriving species from the
\* full species set exactly when the step count at its start is divisible by
\* the interval, and from a tree of the grid otherwise: on such a step every
\* species can be put on every tree, on the other steps only the species
\* that some tree holds (with interval 1 every step is an immigration).
C5_ImmigrationOnMultiples ==
    /\ [](variant = "immigration" /\ CallbackRuns =>
            \A sp \in SpeciesOf("immigration") :
                \A d \in CellsOf("immigration") :
                    (ENABLED (RunBatchImm /\ theForest' = [theForest EXCEPT ![d] = sp]))
                        <=> \/ (stepCount % immigrationInterval) = 0
                            \/ \E c \in CellsOf("immigration") : theForest[c] = sp)
    /\ [][(variant = "immigration" /\ ReplaceTreeStep) =>
            /\ arrivalSource' = "reserve" <=> (stepCount % immigrationInterval) = 0
            /\ immigrationInterval = 1 => arrivalSource' = "reserve"]_vars

\* C5 witness: an immigrant has just arrived while the interval is not 1 and
\* the other species is extinct
C5_Witness ==
    /\ variant = "immigration"
    /\ arrivalSource = "reserve"
    /\ immigrationInterval > 1
    /\ stepCount > 1
    /\ \E sp \in SpeciesOf("immigration") : theCensus[sp] = 1

\* C6: in immigration an extinct species can come back: whenever a species
\* has count 0 and the next replaceTree starts at a step count divisible by
\* the interval, that replaceTree can give it a positive count, and until
\* then the loop can always go on; and a count goes from 0 to positive (short
\* of a reset) only by a replaceTree that starts at such a step count.
C6_ExtinctSpeciesComesBack ==
    /\ [](variant = "immigration" /\ CallbackRuns =>
            /\ ENABLED RunBatchImm
            /\ \A sp \in SpeciesOf("immigration") :
                (theCensus[sp] = 0 /\ (stepCount % immigrationInterval) = 0)
                    => ENABLED (RunBatchImm /\ theCensus'[sp] > 0))
    /\ [][(variant = "immigration" /\ ~ClickReset) =>
            \A sp \in SpeciesOf("immigration") :
                (theCensus[sp] = 0 /\ theCensus'[sp] > 0)
                    => /\ ReplaceTreeStep
                       /\ (stepCount % immigrationInterval) = 0]_vars

\* C6 witness: a species is extinct in the middle of a run, at a step count
\* divisible by an interval greater than 1
C6_Witness ==
    /\ variant = "immigration"
    /\ activeTimers > 0
    /\ stepCount > 0
    /\ immigrationInterval > 1
    /\ (stepCount % immigrationInterval) = 0
    /\ \E sp \in SpeciesOf("immigration") : theCensus[sp] = 0

\* C7: the controller starts in idle and its state changes only from idle
\* to running (a click), from running to paused (a click, or the end of a
\* batch at a multiple of the step ceiling), from paused to running (a
\* click), from running to done (competition only, at the end of a batch
\* with a species extinct) and from any state to idle (reset).
C7_StateTransitions ==
    /\ state = "idle"
    /\ [][state' # state =>
            \/ state = "idle" /\ state' = "running" /\ HandlerStep
            \/ /\ state = "running" /\ state' = "paused"
               /\ \/ HandlerStep
                  \/ ReplaceTreeStep /\ i' = 0 /\ (stepCount' % maxSteps) = 0
            \/ state = "paused" /\ state' = "running" /\ HandlerStep
            \/ /\ state = "running" /\ state' = "done"
               /\ variant = "competition"
               /\ ReplaceTreeStep /\ i' = 0 /\ Extinct(theCensus')
            \/ state' = "idle" /\ stepCount' = 0 /\ i' = i]_vars

\* C7 witness: socialdx paused at the step ceiling
C7_Witness ==
    /\ variant = "socialdx"
    /\ state = "paused"
    /\ stepCount = maxSteps

\* C8: in competition, whenever a batch ends with olive or orange at count
\* zero the state becomes done, also when stepCount is at that moment a
\* multiple of the step ceiling.
C8_ExtinctionEndsInDone ==
    [][(variant = "competition" /\ ReplaceTreeStep /\ i' = 0
            /\ Extinct(theCensus')) => state' = "done"]_vars

\* C9: in competition done is terminal: in done no timer is active, no
\* callback is in progress and the button is disabled; every step from done
\* either keeps the state done and leaves stepCount, the grid and the census
\* unchanged, or is a reset to idle with the button enabled again.
C9_DoneIsTerminal ==
    /\ [](state = "done" =>
            /\ variant = "competition"
            /\ activeTimers = 0
            /\ i = 0
            /\ disabled
            /\ ~ENABLED RunBatchComp)
    /\ [][state = "done" =>
            \/ /\ state' = "done"
               /\ UNCHANGED <<stepCount, theForest, theCensus, activeTimers>>
            \/ /\ state' = "idle"
               /\ ~disabled'
               /\ activeTimers' = 0
               /\ stepCount' = 0]_vars

\* C9 witness: done, reached at the end of a batch
C9_Witness ==
    /\ state = "done"
    /\ disabled
    /\ stepCount >= batchSize
    /\ Extinct(theCensus)

\* C10: reset is handled in every state of the controller and always ends
\* idle, with stepCount 0, no timer, a fresh grid of N labelled trees and a
\* census that agrees with it (in competition also the 50:50 split and the
\* button enabled); in idle no timer is active, so no batch runs before the
\* next start click.
C10_ResetEndsIdle ==
    /\ [](HandlerRuns => ENABLED ClickReset)
    /\ [](state = "idle" => activeTimers = 0 /\ i = 0)
    /\ [][ClickReset =>
            /\ state' = "idle"
            /\ stepCount' = 0
            /\ activeTimers' = 0
            /\ i' = 0
            /\ theForest' \in [CellsOf(variant) -> SpeciesOf(variant)]
            /\ \A sp \in SpeciesOf(variant) :
                    theCensus'[sp] = Cardinality({c \in CellsOf(variant) :
                                                    theForest'[c] = sp})
            /\ variant = "competition" =>
                    iron' = halfSplit /\ calcium' = halfSplit /\ ~disabled']_vars

\* C10 witness: idle at step 0 after a run (a replacement had taken place)
C10_Witness ==
    /\ state = "idle"
    /\ stepCount = 0
    /\ arrivalSource # "none"

\* the trees of the grid that hold a species none of the nine trees of d's
\* neighbourhood holds
EligibleCells(d) ==
    {c \in CellsOf("socialdx") :
        /\ theForest[c] # null
        /\ \A k \in 1 .. 9 :
                theForest[listNeighbors(d, gridSize)[k]] # theForest[c]}

\* the first tree of a non-empty set of trees in circular order from idx
FirstFrom(el, idx) ==
    CHOOSE c \in el :
        \A e \in el :
            ((c + NOf("socialdx") - idx) % NOf("socialdx"))
                <= ((e + NOf("socialdx") - idx) % NOf("socialdx"))

\* C11: in socialdx, for every start index the scan visits each of the N
\* trees exactly once; for every departing tree d and start index idx,
\* replaceTree leaves d vacant if and only if no tree of the grid holds a
\* species absent from d's nine-tree neighbourhood, and otherwise gives d
\* the species of the first such tree in circular order from idx; and every
\* replaceTree of a batch is such a call.
C11_VacantIffNoEligibleTree ==
    /\ [](variant = "socialdx" =>
            \A idx \in CellsOf("socialdx") :
                {modAdd(idx, k, NOf("socialdx")) : k \in 0 .. (NOf("socialdx") - 1)}
                    = CellsOf("socialdx"))
    /\ [](variant = "socialdx" =>
            \A d \in CellsOf("socialdx") :
                \A el \in {EligibleCells(d)} :
                    \A idx \in CellsOf("socialdx") :
                        \A r \in {replaceTreeSdx(theForest, theCensus, neighborTrees,
                                                 stepCount, d, idx)} :
                            /\ (r.theForest[d] = null) <=> (el = {})
                            /\ (r.source = "vacant") <=> (el = {})
                            /\ el # {} =>
                                    r.theForest[d] = theForest[FirstFrom(el, idx)]
                            /\ \A c \in CellsOf("socialdx") \ {d} :
                                    r.theForest[c] = theForest[c])
    /\ [][(variant = "socialdx" /\ ReplaceTreeStep) =>
            \E d \in DepartingTrees("socialdx") :
                /\ \A c \in CellsOf("socialdx") \ {d} : theForest'[c] = theForest[c]
                /\ \A el \in {EligibleCells(d)} :
                    IF el = {}
                    THEN theForest'[d] = null /\ arrivalSource' = "vacant"
                    ELSE /\ arrivalSource' = "scan"
                         /\ \E c \in el : theForest'[d] = theForest[c]]_vars

\* C11 witness: a tree was left vacant while all three species still grow
\* in the grid, and the grid already had another vacant tree
C11_Witness ==
    /\ variant = "socialdx"
    /\ arrivalSource = "vacant"
    /\ Cardinality(VacantCells) >= 2
    /\ \A sp \in SpeciesOf("socialdx") : \E c \in CellsOf("socialdx") : theForest[c] = sp

\* C12: in socialdx the census is, after every replaceTree, a mapping from
\* exactly the species set to non-negative integers: a replaceTree whose
\* departing tree is already vacant creates no entry for the vacant label
\* and makes no count non-numeric.
C12_CensusOverSpeciesSet ==
    variant = "socialdx" =>
        /\ DOMAIN theCensus = SpeciesOf("socialdx")
        /\ \A sp \in SpeciesOf("socialdx") : theCensus[sp] \in Nat

\* C13: in competition extinction is permanent: a species whose count is 0
\* keeps the count 0 through every replaceTree (the rest of the batch in
\* which it became 0, every later batch) and every other step; only a
\* reset, which plants a new grid, gives it trees again.
C13_ExtinctionIsPermanent ==
    [][variant = "competition" =>
            \A sp \in SpeciesOf("competition") :
                (theCensus[sp] = 0 /\ theCensus'[sp] # 0) => ClickReset]_vars

\* C13 witness: both species grew after the first replacement, one is
\* extinct now, and a batch after the pause at the step ceiling is under way
C13_Witness ==
    /\ variant = "competition"
    /\ Extinct(theCensus)
    /\ stepCount > maxSteps
    /\ i > 0
    /\ Len(timeline["olive"]) > 0
    /\ timeline["olive"][1] > 0
    /\ timeline["orange"][1] > 0

-----------------------------------------------------------------------------
(* a competition run the user starts and resumes but never pauses or resets, *)
(* with the resource split left alone once the run has started; the timer    *)
(* keeps calling runBatch while it is active, and the random draws are fair  *)

InitLive == Init /\ variant = "competition"

\* a click that starts the run or resumes it after a pause
StartOrResume ==
    /\ state \in {"idle", "paused"}
    /\ stepCount < StepCap
    /\ ClickStartStop

\* the slider is moved before the run starts
AdjustResourcesIdle ==
    /\ state = "idle"
    /\ AdjustResources

NextLive ==
    \/ RunBatchComp
    \/ RunBatchSpin
    \/ StartOrResume
    \/ AdjustResourcesIdle

\* a replaceTree that takes a tree from species sp at count k
DrawAgainst(sp, k) ==
    /\ RunBatchComp
    /\ theCensus[sp] = k
    /\ theCensus'[sp] = k - 1

LiveSpec ==
    /\ InitLive
    /\ [][NextLive]_vars
    /\ WF_vars(RunBatchComp)
    /\ \A sp \in SpeciesOf("competition") :
            \A k \in 1 .. NOf("competition") : SF_vars(DrawAgainst(sp, k))

\* both pressure factors lie strictly between 0 and 1
FactorsInUnit ==
    \A sp \in SpeciesOf("competition") :
        /\ biasNum(sp, iron, calcium) > 0
        /\ biasNum(sp, iron, calcium) < biasDen(sp, theCensus)

RunningInUnit ==
    variant = "competition" /\ state = "running" /\ FactorsInUnit

PausedAtCeiling ==
    state = "paused" /\ stepCount > 0 /\ (stepCount % maxSteps) = 0

\* C14 (as stated): in competition, with both pressure factors in (0,1),
\* fair draws and no pause or reset by the user, a running controller
\* eventually reaches done.
C14_RunEndsInDone == RunningInUnit ~> (state = "done")

\* C14 (amended): in competition, with both pressure factors in (0,1), every
\* replaceTree of a run in which both species grow can take a tree from
\* either species, so a census with a count of 0 stays reachable; and under
\* fair draws, with no slider change during the run and no pause
\* or reset by the user, a running controller eventually reaches done or
\* the automatic pause at a multiple of the step ceiling, from which a
\* click resumes the run.
C14_RunEndsOrPausesAtCeiling ==
    /\ [](RunningInUnit /\ ~Extinct(theCensus) /\ CallbackRuns =>
            \A sp \in SpeciesOf("competition") :
                ENABLED (RunBatchComp /\ theCensus'[sp] = theCensus[sp] - 1))
    /\ [](PausedAtCeiling /\ stepCount < StepCap => ENABLED StartOrResume)
    /\ (RunningInUnit ~> (state = "done" \/ PausedAtCeiling))

\* C14 witness: done after a run in which both species grew at the start
C14_Witness ==
    /\ state = "done"
    /\ iron = halfSplit
    /\ Len(timeline["olive"]) > 0
    /\ timeline["olive"][1] > 0
    /\ timeline["orange"][1] > 0

\* C15: in competition, in every state in which a replacement is attempted
\* (the timer is active), whatever the split set by the slider and whatever
\* the census, some species that still has trees has a pressure factor
\* greater than 0, so the rejection loop of replaceTree can end.
C15_RejectionLoopCanEnd ==
    (variant = "competition" /\ activeTimers > 0) =>
        \E sp \in SpeciesOf("competition") :
            /\ theCensus[sp] > 0
            /\ biasDen(sp, theCensus) > 0
            /\ biasNum(sp, iron, calcium) > 0

-----------------------------------------------------------------------------
(* competition with the numbers of the source: 25 x 25 trees and a resource  *)
(* total of 100.  Only what the pressure factors read is kept: the census    *)
(* and the split; the grid itself is left out.                               *)

\* createForest(25) in init of competition
configuredTreesPerRow == 25
\* calcium = (100 - allocation)
configuredTotal == 100

configuredN == square(configuredTreesPerRow)

\* init: a planting with olivePop olive trees, the split at 50:50
InitConfigured ==
    \E olivePop \in 0 .. configuredN :
        /\ variant = "competition"
        /\ state = "idle"
        /\ stepCount = 0
        /\ activeTimers = 0
        /\ timerLive = FALSE
        /\ disabled = FALSE
        /\ i = 0
        /\ theForest = <<>>
        /\ theCensus = [sp \in SpeciesOf("competition") |->
                            IF sp = "olive" THEN olivePop ELSE configuredN - olivePop]
        /\ neighborTrees = <<>>
        /\ immigrationInterval = 0
        /\ immSlider = 0
        /\ iron = configuredTotal \div 2
        /\ calcium = configuredTotal \div 2
        /\ coexistSlider = configuredTotal \div 2
        /\ timeline = initTimeline("competition")
        /\ timelineNumberOfSpecies = <<>>
        /\ spinning = FALSE
        /\ arrivalSource = "none"
        /\ rejected = 0

\* replaceTree of competition, as far as the census goes: a tree of a species
\* that has trees departs, a tree of a species that has trees and whose coin
\* can come up true arrives
ReplaceTreeConfigured ==
    /\ \E departing \in SpeciesOf("competition") :
        \E arriving \in SpeciesOf("competition") :
            /\ theCensus[departing] > 0
            /\ theCensus[arriving] > 0
            /\ flipCanAccept(biasNum(arriving, iron, calcium),
                             biasDen(arriving, theCensus))
            /\ theCensus' = censusInc(censusDec(theCensus, departing), arriving)
    /\ arrivalSource' = "forest"
    /\ UNCHANGED <<variant, state, stepCount, activeTimers, timerLive, disabled, i,
                   theForest, neighborTrees, immigrationInterval, immSlider, iron,
                   calcium, coexistSlider, timeline, timelineNumberOfSpecies,
                   spinning, rejected>>

\* adjustResources
AdjustResourcesConfigured ==
    /\ \E allocation \in 0 .. configuredTotal :
        /\ coexistSlider' = allocation
        /\ iron' = adjustResources(allocation, configuredTotal).iron
        /\ calcium' = adjustResources(allocation, configuredTotal).calcium
    /\ UNCHANGED <<variant, state, stepCount, activeTimers, timerLive, disabled, i,
                   theForest, theCensus, neighborTrees, immigrationInterval,
                   immSlider, timeline, timelineNumberOfSpecies, spinning,
                   arrivalSource, rejected>>

NextConfigured ==
    \/ ReplaceTreeConfigured
    \/ AdjustResourcesConfigured

ConfiguredSpec == InitConfigured /\ [][NextConfigured]_vars

\* C16: in competition as configured (625 trees, poaching coefficient 0.25,
\* split any integer 0..100 with its complement), for every census the
\* program can reach both pressure factors are well defined and at most 1:
\* the denominator own + 0.25 * other is not 0 and not smaller than the
\* species' resource (4 * resource <= 4 * own + other).
C16_FactorsAtMostOne ==
    /\ theCensus["olive"] + theCensus["orange"] = configuredN
    /\ \A sp \in SpeciesOf("competition") :
        /\ theCensus[sp] >= 0
        /\ biasDen(sp, theCensus) > 0
        /\ biasNum(sp, iron, calcium) <= biasDen(sp, theCensus)

\* C16 witness: the largest factor there is, after a replacement: no olive
\* tree and the whole resource total given to iron
C16_Witness ==
    /\ theCensus["olive"] = 0
    /\ theCensus["orange"] = configuredN
    /\ iron = configuredTotal
    /\ arrivalSource = "forest"

\* this step is a click, a reset or a slider change: the loop index and the
\* do-while flag stay, something else changes
UserStep == i' = i /\ spinning' = spinning

\* C17: a batch is atomic with respect to the user's events: a click, a
\* reset or a slider change is handled only between batches, where
\* stepCount is a multiple of batchSize; inside a batch the controller is
\* running, the next replaceTree can run, every step is a replaceTree, and
\* the state leaves running only with the last one; and no replaceTree and
\* no step inside a batch changes the immigration interval or the split.
C17_BatchIsAtomic ==
    /\ [](i > 0 =>
            /\ state = "running"
            /\ activeTimers > 0
            /\ ~spinning
            /\ ENABLED (RunBatchImm \/ RunBatchComp \/ RunBatchSdx))
    /\ [][/\ UserStep => (i = 0 /\ (stepCount % batchSize) = 0)
          /\ i > 0 => (ReplaceTreeStep /\ stepCount' = stepCount + 1)
          /\ (state = "running" /\ state' # "running") => i' = 0
          /\ (i > 0 \/ i' > 0) =>
                UNCHANGED <<immigrationInterval, iron, calcium>>]_vars

\* C17 witness: immigration paused by a click right after the first batch,
\* the slider having been moved since the page was loaded
C17_Witness ==
    /\ variant = "immigration"
    /\ state = "paused"
    /\ stepCount = batchSize
    /\ immigrationInterval # immigrationIntervalDefault

\* const maxSteps = 500000 and const batchSize = 40, the numbers of the source
configuredMaxSteps == 500000
configuredBatchSize == 40

\* C18: in every variant a run pauses by itself exactly when stepCount
\* reaches a positive multiple of maxSteps: batchSize divides maxSteps, so
\* stepCount is a multiple of maxSteps only between batches; a batch that
\* ends at such a multiple ends in paused with the timer cleared and the
\* button enabled, any other batch ends in running (or, in competition with
\* a species extinct, in done); and from paused a click resumes the run, so
\* that the next automatic pause comes maxSteps steps later.
C18_PausesAtCeiling ==
    /\ [](/\ (configuredMaxSteps % configuredBatchSize) = 0
          /\ (maxSteps % batchSize) = 0
          /\ (stepCount % maxSteps) = 0 => i = 0)
    /\ [](state = "paused" =>
            ENABLED (ClickStartStop /\ state' = "running" /\ activeTimers' = 1))
    /\ [][(ReplaceTreeStep /\ i' = 0) =>
            IF (stepCount' % maxSteps) = 0
            THEN /\ stepCount' > 0
                 /\ state' = "paused"
                 /\ activeTimers' = 0
                 /\ ~disabled'
            ELSE IF variant = "competition" /\ Extinct(theCensus')
                 THEN state' = "done"
                 ELSE state' = "running" /\ activeTimers' = 1]_vars

\* C18 witness: competition, both species growing, paused for the second
\* time, maxSteps steps after the first automatic pause
C18_Witness ==
    /\ variant = "competition"
    /\ state = "paused"
    /\ stepCount = 2 * maxSteps
    /\ ~Extinct(theCensus)

\* C19: in competition the two resources always add up to the same total
\* (100 in the source, sliderMax here): init sets the split to 50:50, every
\* slider change sets iron to the allocation and calcium to its complement,
\* and every reset sets the split back to 50:50.
C19_SplitSumsToTotal ==
    /\ (variant = "competition" => (iron = halfSplit /\ calcium = halfSplit))
    /\ [](variant = "competition" =>
            /\ iron + calcium = sliderMax
            /\ iron \in 0 .. sliderMax
            /\ coexistSlider = iron)
    /\ [][(variant = "competition" /\ ClickReset) =>
            (iron' = halfSplit /\ calcium' = halfSplit)]_vars

\* C19 witness: every tree is orange, the slider was moved to the end of
\* its scale during a run, all the resource is calcium
C19_Witness ==
    /\ variant = "competition"
    /\ stepCount > 0
    /\ iron = 0
    /\ calcium = sliderMax
    /\ theCensus["olive"] = 0

\* C20: in every reachable state every tree of the grid has a label that is
\* a species of the variant's species set or vacant, and a vacant label
\* occurs only in socialdx: no tree of immigration or competition is ever
\* vacant.
C20_LabelsAreSpeciesOrVacant ==
    /\ DOMAIN theForest = CellsOf(variant)
    /\ \A c \in CellsOf(variant) :
        /\ theForest[c] \in SpeciesOf(variant) \cup {null}
        /\ theForest[c] = null => variant = "socialdx"

\* C20 witness: socialdx with three vacant trees next to labelled ones
C20_Witness ==
    /\ variant = "socialdx"
    /\ Cardinality(VacantCells) >= 3
    /\ \E c \in CellsOf("socialdx") : theForest[c] # null

\* C21: in immigration and competition one replaceTree with departing tree
\* t of species d and arriving species a relabels t with a and nothing
\* else, takes 1 from the count of d and adds 1 to the count of a (no net
\* change when a = d), and leaves every other count and the set of trees
\* and of census keys as they were.
C21_DriftFrame ==
    [][(variant \in {"immigration", "competition"} /\ ReplaceTreeStep) =>
        /\ DOMAIN theForest' = DOMAIN theForest
        /\ DOMAIN theCensus' = DOMAIN theCensus
        /\ \E t \in CellsOf(variant) :
            /\ \A c \in CellsOf(variant) \ {t} : theForest'[c] = theForest[c]
            /\ \A sp \in SpeciesOf(variant) :
                theCensus'[sp] = theCensus[sp]
                                    + (IF sp = theForest'[t] THEN 1 ELSE 0)
                                    - (IF sp = theForest[t] THEN 1 ELSE 0)]_vars

\* C21 witness: immigration after a replacement that took the arrival from
\* a tree of the grid and left three aspen and one elm
C21_Witness ==
    /\ variant = "immigration"
    /\ stepCount = 2
    /\ arrivalSource = "forest"
    /\ theCensus["aspen"] = NOf("immigration") - 1
    /\ theCensus["elm"] = 1

\* C22: in socialdx every tree's neighbour list has exactly 9 entries, the
\* trees at ((col + h) mod s, (row + v) mod s) for h, v in -1 .. 1, h
\* running slowest, with the tree itself at position 4 (counted from 0);
\* the relation "is in the list of" is symmetric; and no replaceTree changes
\* any list.
C22_NeighborLists ==
    /\ [](variant = "socialdx" =>
            \A c \in CellsOf("socialdx") :
                /\ Len(neighborTrees[c]) = 9
                /\ \A h \in -1 .. 1 :
                    \A v \in -1 .. 1 :
                        neighborTrees[c][(3 * (h + 1)) + (v + 1) + 1]
                            = ((colOf(c, gridSize) + h + gridSize) % gridSize)
                                + (gridSize * ((rowOf(c, gridSize) + v + gridSize)
                                                    % gridSize))
                /\ neighborTrees[c][4 + 1] = c
                /\ \A d \in CellsOf("socialdx") :
                    (d \in Range(neighborTrees[c])) <=> (c \in Range(neighborTrees[d])))
    /\ [][(variant = "socialdx" /\ ReplaceTreeStep) =>
            neighborTrees' = neighborTrees]_vars

\* C22 witness: socialdx at the end of two runs of replacements; the first
\* neighbour of tree 0 is the tree of the opposite corner
C22_Witness ==
    /\ variant = "socialdx"
    /\ stepCount = StepCap
    /\ neighborTrees[0][1] = NOf("socialdx") - 1

-----------------------------------------------------------------------------
(* socialdx with the species set init uses: the ten keys of treeColorMap10 *)

treeNames10 ==
    <<"aspen", "elm", "maple", "hickory", "hemlock", "birch", "beech", "oak",
      "pine", "chestnut">>

\* a planting randomElement can produce: the first nine species in the 3 x 3
\* block of the first three columns and rows, the last row and the last
\* column repeating the first row and the first column, and the only tree
\* of the tenth species in the last corner
tenPlanting ==
    [c \in CellsOf("socialdx") |->
        IF colOf(c, gridSize) = gridSize - 1 /\ rowOf(c, gridSize) = gridSize - 1
        THEN treeNames10[10]
        ELSE treeNames10[1 + (colOf(c, gridSize) % (gridSize - 1))
                           + (3 * (rowOf(c, gridSize) % (gridSize - 1)))]]

\* init: new Forest(25, treeColorMap10, 500), on the grid of the model
InitTen ==
    /\ variant = "socialdx"
    /\ state = "idle"
    /\ stepCount = 0
    /\ activeTimers = 0
    /\ timerLive = FALSE
    /\ disabled = FALSE
    /\ i = 0
    /\ theForest = tenPlanting
    /\ theCensus = plantCount(tenPlanting, [sp \in Range(treeNames10) |-> 0],
                              0, NOf("socialdx"))
    /\ neighborTrees = [c \in CellsOf("socialdx") |-> listNeighbors(c, gridSize)]
    /\ immigrationInterval = 0
    /\ immSlider = 0
    /\ iron = 0
    /\ calcium = 0
    /\ coexistSlider = 0
    /\ timeline = <<>>
    /\ timelineNumberOfSpecies = <<>>
    /\ spinning = FALSE
    /\ arrivalSource = "none"
    /\ rejected = 0

NextTen ==
    \/ RunBatchSdx
    \/ ClickStartStop

TenSpeciesSpec == InitTen /\ [][NextTen]_vars

\* C23: in socialdx run with the ten species of treeColorMap10, every
\* replaceTree finds an eligible species: no tree ever becomes vacant.
C23_ReplacementAlwaysFound ==
    /\ arrivalSource # "vacant"
    /\ \A c \in CellsOf("socialdx") : theForest[c] # null

\* C24: in immigration the interval in effect is in every reachable state
\* one of the values of the interval list (the default is one of them),
\* whatever the slider positions, resets and batches before; so it is a
\* positive integer and stepCount mod interval is defined.
C24_IntervalFromList ==
    variant = "immigration" =>
        /\ immigrationIntervalDefault \in Range(immigrationIntervalList)
        /\ immigrationInterval \in Range(immigrationIntervalList)
        /\ immigrationInterval \in Nat \ {0}
        /\ (stepCount % immigrationInterval) \in 0 .. (immigrationInterval - 1)

\* C24 witness: the largest interval of the list is in effect in a run
C24_Witness ==
    /\ variant = "immigration"
    /\ immigrationInterval = immigrationIntervalList[Len(immigrationIntervalList)]
    /\ stepCount > batchSize
    /\ arrivalSource = "forest"

\* the state a freshly loaded page has once the planting is known
FreshlyLoaded(v, forest) ==
    [init(v, forest) EXCEPT !.state = "idle"] @@
    [stepCount |-> 0, activeTimers |-> 0, timerLive |-> FALSE,
     disabled |-> FALSE,
     immigrationInterval |->
         IF v = "immigration" THEN immigrationIntervalDefault ELSE 0]

\* the part of the state that the steps after it depend on
ProgramState ==
    [theForest |-> theForest, theCensus |-> theCensus,
     neighborTrees |-> neighborTrees, state |-> state,
     immSlider |-> immSlider, iron |-> iron, calcium |-> calcium,
     coexistSlider |-> coexistSlider, stepCount |-> stepCount,
     activeTimers |-> activeTimers, timerLive |-> timerLive,
     disabled |-> disabled, immigrationInterval |-> immigrationInterval]

\* C25: the simulation is a function of the random draws and the user
\* events: two copies that are reset and then given the same draws and the
\* same events stay in identical states.  Every step is a function of the
\* state, the draws and the event, so this says that a reset leaves, for
\* the planting drawn, the one state a freshly loaded page has, whatever
\* happened before the reset.
C25_ResetForgetsThePast ==
    [][ClickReset => ProgramState' = FreshlyLoaded(variant, theForest')]_vars

\* the same, for the two variants without an immigration interval
C25_ResetForgetsThePastElsewhere ==
    [][(variant # "immigration" /\ ClickReset) =>
            ProgramState' = FreshlyLoaded(variant, theForest')]_vars

\* C26: in every variant a batch timer is active exactly when the state is
\* running, and never more than one: only a start or a resume click creates
\* a timer, and it creates one; paused (by a click or at the step ceiling),
\* done and idle have none.  So replaceTree, which only a timer's callback
\* runs, never runs in idle, paused or done.
C26_TimerIffRunning ==
    /\ []((activeTimers > 0) <=> (state = "running"))
    /\ [](activeTimers <= 1 /\ (timerLive <=> activeTimers = 1))
    /\ [](i > 0 => state = "running")
    /\ [][activeTimers' > activeTimers =>
            /\ HandlerStep
            /\ state \in {"idle", "paused"}
            /\ state' = "running"
            /\ activeTimers' = 1]_vars
    /\ [][(ReplaceTreeStep \/ spinning' # spinning) => state = "running"]_vars

\* C26 witness: paused by a click in the middle of a run, no timer left
C26_Witness ==
    /\ variant = "immigration"
    /\ state = "paused"
    /\ activeTimers = 0
    /\ stepCount = batchSize
    /\ i = 0

\* the eight toroidal neighbours of every cell of the socialdx grid
Ring ==
    [c \in CellsOf("socialdx") |->
        {listNeighbors(c, gridSize)[k] : k \in (1 .. 9) \ {5}}]

\* the pairs of adjacent cells of the socialdx grid
AdjacentPairs ==
    {p \in CellsOf("socialdx") \X CellsOf("socialdx") :
        p[1] < p[2] /\ p[2] \in Ring[p[1]]}

\* the conflicts: pairs of adjacent cells holding the same non-vacant species
Conflicts(forest) ==
    {p \in AdjacentPairs :
        forest[p[1]] # null /\ forest[p[1]] = forest[p[2]]}

\* the pairs of adjacent vacant cells
VacantPairs(forest) ==
    {p \in AdjacentPairs : forest[p[1]] = null /\ forest[p[2]] = null}

ConflictsAt(forest, d) == {p \in Conflicts(forest) : d \in {p[1], p[2]}}

\* C27: in socialdx the number of conflicts (pairs of adjacent cells of the
\* torus holding the same non-vacant species) never increases from one
\* replaceTree to the next: the replacement removes exactly the conflicts
\* the departing cell was part of and creates none.  countConflicts of the
\* source gives this number plus the number of adjacent vacant pairs.
C27_ConflictsNeverIncrease ==
    /\ [](variant = "socialdx" =>
            countConflicts(theForest, neighborTrees)
                = Cardinality(Conflicts(theForest))
                  + Cardinality(VacantPairs(theForest)))
    /\ [][(variant = "socialdx" /\ ReplaceTreeStep) =>
            \E before \in {Conflicts(theForest)} :
            \E after \in {Conflicts(theForest')} :
                /\ Cardinality(after) <= Cardinality(before)
                /\ \E d \in DepartingTrees("socialdx") :
                    /\ \A c \in CellsOf("socialdx") \ {d} :
                            theForest'[c] = theForest[c]
                    /\ \A p \in after : d \notin {p[1], p[2]}
                    /\ after = {p \in before : d \notin {p[1], p[2]}}]_vars

\* C27 witness: after a run of replacements no tree of the diagonal, where
\* the departing trees were drawn, is part of a conflict, while conflicts
\* between other trees remain
C27_Witness ==
    /\ variant = "socialdx"
    /\ stepCount = maxSteps
    /\ arrivalSource = "scan"
    /\ Conflicts(theForest) # {}
    /\ \A d \in DepartingTrees("socialdx") : ConflictsAt(theForest, d) = {}

-----------------------------------------------------------------------------
(* a socialdx run the user starts and resumes after every pause at the step *)
(* ceiling but never pauses or resets, with fair draws of the departing tree *)

\* the grid twelve replacements make of the planting "aspen everywhere":
\* every tree outside the block of the first two columns and rows was
\* drawn once and went vacant (its own species is in its neighbourhood and
\* no other species has a tree)
sparseForest ==
    [c \in CellsOf("socialdx") |->
        IF colOf(c, gridSize) < 2 /\ rowOf(c, gridSize) < 2
        THEN treeNamesOf("socialdx")[1] ELSE null]

\* the census that goes with it
sparseCensus ==
    [sp \in SpeciesOf("socialdx") |->
        Cardinality({c \in CellsOf("socialdx") : sparseForest[c] = sp})]

\* the run is paused after these twelve replacements
InitFair ==
    /\ variant = "socialdx"
    /\ state = "paused"
    /\ stepCount = (NOf("socialdx") - 4) % maxSteps
    /\ activeTimers = 0
    /\ timerLive = FALSE
    /\ disabled = FALSE
    /\ i = 0
    /\ theForest = sparseForest
    /\ theCensus = sparseCensus
    /\ neighborTrees = [c \in CellsOf("socialdx") |-> listNeighbors(c, gridSize)]
    /\ immigrationInterval = 0
    /\ immSlider = 0
    /\ iron = 0
    /\ calcium = 0
    /\ coexistSlider = 0
    /\ timeline = <<>>
    /\ timelineNumberOfSpecies = <<>>
    /\ spinning = FALSE
    /\ arrivalSource = "vacant"
    /\ rejected = 0

\* the start indices of the scan drawn in these runs
FairStarts == CellsOf("socialdx")

\* a click that starts the run or resumes it after a pause
ResumeFair ==
    /\ state \in {"idle", "paused"}
    /\ ClickStartStop

\* one iteration of runBatch's loop in which randomElement(this.trees) draws
\* departingTree; the step count is kept modulo maxSteps, which is all that
\* finished() reads of it
RunBatchFrom(departingTree) ==
    /\ variant = "socialdx"
    /\ activeTimers > 0
    /\ \E idx \in FairStarts :
        \E r \in {replaceTreeSdx(theForest, theCensus, neighborTrees,
                                   stepCount, departingTree, idx)} :
            /\ theForest' = r.theForest
            /\ theCensus' = r.theCensus
            /\ stepCount' = r.stepCount % maxSteps
            /\ arrivalSource' = r.source
            /\ LoopEnd(r.stepCount, r.theCensus)
    /\ UNCHANGED <<variant, neighborTrees, immigrationInterval, immSlider, iron,
                   calcium, coexistSlider, timeline, timelineNumberOfSpecies,
                   spinning, rejected>>

NextFair ==
    \/ \E departingTree \in CellsOf("socialdx") : RunBatchFrom(departingTree)
    \/ ResumeFair

\* the timer keeps calling runBatch while it is active, and the user
\* resumes the run after a pause
FairSpec ==
    /\ InitFair
    /\ [][NextFair]_vars
    /\ WF_vars(ResumeFair)
    /\ WF_vars(\E departingTree \in CellsOf("socialdx") :
                    RunBatchFrom(departingTree))

\* C28: in socialdx, in a run in which every tree is drawn as departing
\* tree again and again, the grid reaches a state without conflicts (no two
\* adjacent trees of the same non-vacant species) and stays without
\* conflicts for ever.
C28_EventuallyConflictFree ==
    (\A departingTree \in CellsOf("socialdx") :
            []<><<RunBatchFrom(departingTree)>>_vars)
        => <>[](Conflicts(theForest) = {})

\* C28 witness: a running grid without conflicts in which trees live, the
\* last replacement having planted a species the scan found
C28_Witness ==
    /\ state = "running"
    /\ arrivalSource = "scan"
    /\ Conflicts(theForest) = {}
    /\ Cardinality({c \in CellsOf("socialdx") : theForest[c] # null}) >= 3

\* C29: in immigration the interval in effect is in every reachable state
\* the entry of the interval list at the slider's position; after init or a
\* reset, which put the slider at its default position, it is the default.
C29_IntervalMatchesSlider ==
    variant = "immigration" =>
        immigrationInterval = immigrationIntervalList[immSlider + 1]

\* the species of socialdx that have trees according to the census
LivingSpecies(census) == {sp \in SpeciesOf("socialdx") : census[sp] > 0}

\* C30: in socialdx a species whose count has reached 0 does not reappear:
\* its count stays 0 in every step that is not a reset, and the number of
\* living species never increases during a run.
C30_ExtinctStaysExtinct ==
    [][(variant = "socialdx" /\ ~ClickReset) =>
            /\ \A sp \in SpeciesOf("socialdx") :
                    theCensus[sp] = 0 => theCensus'[sp] = 0
            /\ LivingSpecies(theCensus') \subseteq LivingSpecies(theCensus)]_vars

\* C30 witness: in the middle of a run the third species, which every
\* planting with a second species has, is extinct while the second lives
C30_Witness ==
    /\ variant = "socialdx"
    /\ state = "running"
    /\ stepCount > batchSize
    /\ theCensus[treeNamesOf("socialdx")[3]] = 0
    /\ theCensus[treeNamesOf("socialdx")[2]] > 0

\* the number of replacements since the last reset whose starting stepCount
\* was a multiple of timelineInterval
SamplesDue(step) == (step + timelineInterval - 1) \div timelineInterval

\* C31: in competition the timeline is an append-only log between resets:
\* a snapshot of the census is appended exactly on the replacements whose
\* starting stepCount is a multiple of timelineInterval; every per-species
\* array and timelineNumberOfSpecies have the same length, the number of
\* such replacements since the last reset; existing entries never change;
\* the counts of each snapshot sum to N; a reset empties the log.
C31_TimelineAppendOnly ==
    /\ [](variant = "competition" =>
            /\ Len(timelineNumberOfSpecies) = SamplesDue(stepCount)
            /\ \A sp \in SpeciesOf("competition") :
                    Len(timeline[sp]) = Len(timelineNumberOfSpecies)
            /\ \A k \in 1 .. Len(timelineNumberOfSpecies) :
                    /\ timeline["olive"][k] + timeline["orange"][k]
                            = NOf("competition")
                    /\ timelineNumberOfSpecies[k]
                            = Cardinality({sp \in SpeciesOf("competition") :
                                            timeline[sp][k] > 0}))
    /\ [][(variant = "competition" /\ ReplaceTreeStep) =>
            IF (stepCount % timelineInterval) = 0
            THEN /\ \A sp \in SpeciesOf("competition") :
                        timeline'[sp] = Append(timeline[sp], theCensus'[sp])
                 /\ Len(timelineNumberOfSpecies')
                        = Len(timelineNumberOfSpecies) + 1
            ELSE /\ timeline' = timeline
                 /\ timelineNumberOfSpecies' = timelineNumberOfSpecies]_vars
    /\ [][variant = "competition" =>
            IF ClickReset
            THEN /\ timelineNumberOfSpecies' = <<>>
                 /\ \A sp \in SpeciesOf("competition") : timeline'[sp] = <<>>
            ELSE /\ Len(timelineNumberOfSpecies') >= Len(timelineNumberOfSpecies)
                 /\ \A k \in 1 .. Len(timelineNumberOfSpecies) :
                        /\ timelineNumberOfSpecies'[k] = timelineNumberOfSpecies[k]
                        /\ \A sp \in SpeciesOf("competition") :
                                timeline'[sp][k] = timeline[sp][k]]_vars

\* C31 witness: two snapshots that differ, and a replacement after the
\* second that appended nothing
C31_Witness ==
    /\ variant = "competition"
    /\ stepCount > timelineInterval + 1
    /\ Len(timelineNumberOfSpecies) = 2
    /\ timeline["olive"][1] # timeline["olive"][2]

-----------------------------------------------------------------------------
(* new Forest(s, ...) for every side s from 1 to MaxSide: the loop of the    *)
(* constructor that gives every tree its neighbour list, then the            *)
(* replacements of one batch                                                 *)

\* the largest side of these grids
MaxSide == 4
\* this.gridSize and this.N of the forest in hand
sideOf(forest) ==
    CHOOSE s \in 1 .. MaxSide : square(s) = Cardinality(DOMAIN forest)

\* plantings of a grid of side s: species ((a*col + row) mod S) at (col, row)
sidedPlantings(s) ==
    {[c \in 0 .. (square(s) - 1) |->
        treeNamesOf("socialdx")[
            (((a * colOf(c, s)) + rowOf(c, s))
                % Len(treeNamesOf("socialdx"))) + 1]] :
     a \in 0 .. 1}

\* the constructor has planted the trees and counted them; no tree has its
\* neighbour list yet
InitSided ==
    \E s \in 1 .. MaxSide :
        \E forest \in sidedPlantings(s) :
            /\ variant = "socialdx"
            /\ state = "idle"
            /\ stepCount = 0
            /\ activeTimers = 0
            /\ timerLive = FALSE
            /\ disabled = FALSE
            /\ i = 0
            /\ theForest = forest
            /\ theCensus = plantCount(forest,
                                      [sp \in SpeciesOf("socialdx") |-> 0],
                                      0, square(s))
            /\ neighborTrees = <<>>
            /\ immigrationInterval = 0
            /\ immSlider = 0
            /\ iron = 0
            /\ calcium = 0
            /\ coexistSlider = 0
            /\ timeline = <<>>
            /\ timelineNumberOfSpecies = <<>>
            /\ spinning = FALSE
            /\ arrivalSource = "none"
            /\ rejected = 0

\* the number of trees that have their neighbour list
Listed == Cardinality(DOMAIN neighborTrees)

\* for (idx ...) { this.trees[idx].listNeighbors(this) }: one iteration
ListNeighborsOfNext ==
    /\ Listed < Cardinality(DOMAIN theForest)
    /\ neighborTrees' =
            [t \in 0 .. Listed |->
                IF t = Listed THEN listNeighbors(t, sideOf(theForest))
                ELSE neighborTrees[t]]
    /\ UNCHANGED <<variant, state, stepCount, activeTimers, timerLive, disabled, i,
                   theForest, theCensus, immigrationInterval, immSlider, iron,
                   calcium, coexistSlider, timeline, timelineNumberOfSpecies,
                   spinning, arrivalSource, rejected>>

\* Forest.prototype.replaceTree on the grid in hand (this.N trees)
ReplaceTreeSided ==
    /\ Listed = Cardinality(DOMAIN theForest)
    /\ stepCount < batchSize
    /\ \E departingTree \in DOMAIN theForest :
        \E idx \in DOMAIN theForest :
            \E replacementSpecies \in
                    {scan(theForest,
                          listNeighborSpecies(theForest,
                                              neighborTrees[departingTree]),
                          idx, 0, Cardinality(DOMAIN theForest))} :
                \E departed \in {censusDec(theCensus, theForest[departingTree])} :
                    /\ theCensus' = IF replacementSpecies # null
                                    THEN censusInc(departed, replacementSpecies)
                                    ELSE departed
                    /\ theForest' =
                            [theForest EXCEPT ![departingTree] = replacementSpecies]
                    /\ arrivalSource' =
                            IF replacementSpecies # null THEN "scan" ELSE "vacant"
    /\ stepCount' = stepInc(stepCount)
    /\ UNCHANGED <<variant, state, activeTimers, timerLive, disabled, i,
                   neighborTrees, immigrationInterval, immSlider, iron, calcium,
                   coexistSlider, timeline, timelineNumberOfSpecies, spinning,
                   rejected>>

NextSided ==
    \/ ListNeighborsOfNext
    \/ ReplaceTreeSided

SidedSpec == InitSided /\ [][NextSided]_vars

\* C32: for the side m and the number of trees N of the grid in hand,
\* modAdd(a, b, m) is (a + b) mod m, a value of 0 .. m-1, for every
\* coordinate a of 0 .. m-1 and every offset b of -1, 0, 1, and
\* modAdd(a, b, N) is (a + b) mod N, a value of 0 .. N-1, for every start
\* index a and every scan offset b of 0 .. N-1; so every entry of every
\* neighbour list is the index of a tree of the grid.
C32_ModAddInRange ==
    \E m \in {sideOf(theForest)} :
    \E N \in {Cardinality(DOMAIN theForest)} :
        /\ \A a \in 0 .. (m - 1) :
                \A b \in {-1, 0, 1} :
                    /\ modAdd(a, b, m) \in 0 .. (m - 1)
                    /\ modAdd(a, b, m) = ((a + b + m) % m)
        /\ \A a \in 0 .. (N - 1) :
                \A b \in 0 .. (N - 1) :
                    /\ modAdd(a, b, N) \in 0 .. (N - 1)
                    /\ modAdd(a, b, N) = ((a + b) % N)
        /\ \A t \in DOMAIN neighborTrees :
                \A k \in 1 .. 9 : neighborTrees[t][k] \in DOMAIN theForest

\* C32 witness: the grid of side 1, whose only tree is its own neighbour
\* nine times over, after a replacement whose scan found nothing
C32_Witness ==
    /\ Cardinality(DOMAIN theForest) = 1
    /\ DOMAIN neighborTrees = {0}
    /\ \A k \in 1 .. 9 : neighborTrees[0][k] = 0
    /\ stepCount > 0
    /\ theForest[0] = null

====
